---- MODULE Spec2Model ----
(***************************************************************************)
(* Model of lei_calculator/simulation.py (with the two metric functions of *)
(* lei_calculator/metrics.py it calls): the equilibrium solver, the noisy  *)
(* drift ode_system, simulate_evolution, simulate_multiple_trajectories,   *)
(* analyze_convergence.                                                    *)
(*                                                                         *)
(* Reals are fixed-point integers in units of 1/Q (Q = 1000, the three     *)
(* decimals the metrics round to).  numpy's process-wide generator is the  *)
(* variable rng: the seed it was last seeded with and the number of values *)
(* drawn since; the value drawn is a fixed function (Raw) of the two.      *)
(***************************************************************************)
EXTENDS Integers, Sequences, FiniteSets, TLC

\* ------------------------------------------------------------------ bounds
MaxYears == 2
MaxRuns == 2
\* internal steps scipy's odeint takes per unit of time: the drift is
\* evaluated at t = k / SubSteps, not only at the integer output times
SubSteps == 2

\* --------------------------------------------------------------- numerics
Q == 1000
PHI == 1618
TimeScale == 1000
DefaultSeed == 42

\* F applied to the value of v, with v evaluated once
Bind(v, F(_)) == CHOOSE y \in {F(x) : x \in {v}} : TRUE

Abs(x) == IF x < 0 THEN -x ELSE x
Min(a, b) == IF a < b THEN a ELSE b
Max(a, b) == IF a > b THEN a ELSE b

\* a / b rounded to the nearest unit, b # 0
FDiv(a, b) ==
    IF b > 0 THEN (a + b \div 2) \div b
    ELSE ((-a) + (-b) \div 2) \div (-b)

\* x * y of two fixed-point numbers
FMul(x, y) == FDiv(x * y, Q)

clip(x, lo, hi) == Max(lo, Min(x, hi))

\* np.exp(-d) for d >= 0, as 1 / (1 + d + d^2/2): 1 at d = 0, below 1 and
\* decreasing towards 0 for d > 0 (0 to three decimals beyond d = 40)
ExpNeg(d) ==
    IF d > 40 * Q THEN 0
    ELSE FDiv(Q * Q * Q, Q * Q + Q * d + (d * d) \div 2)

\* ------------------------------------------------- numpy's global generator
\* the k-th raw output (0 .. 19) of the stream seeded with s: a fixed
\* scrambling of the two
Raw(s, k) ==
    LET h == (s * 1103 + k * 12347 + 12345) % 32749
    IN  (((h * h + 3 * h + 7) % 32749) \div 7) % 20

\* np.random.seed(s)
seed(s) == [seed |-> s, pos |-> 0]
\* the generator after one more draw
Advance(r) == [r EXCEPT !.pos = @ + 1]
\* np.random.normal(0, 1): whole standard deviations -2 .. 2
normal(r) == (Raw(r.seed, r.pos) % 5) - 2
\* np.random.uniform(lo, hi): lo + (hi - lo) * u, u in {0, 1/4, 1/2, 3/4}
uniform(r, lo, hi) == lo + ((hi - lo) * (Raw(r.seed, r.pos) % 4)) \div 4

\* ------------------------------------------------------------- equilibrium
\* the cap on alpha_eq and the step towards it
AlphaCap == 700
AlphaIncrement == 150

\* (mutant) V_eq = total / target_ratio + 1
SolveTargetMisparenthesized(H0, V0, target_ratio) ==
    LET total == H0 + V0
        V_eq == FDiv(total * Q, target_ratio) + Q
    IN  [H_eq |-> FMul(target_ratio, V_eq), V_eq |-> V_eq]

\* H_eq and V_eq as solved from H*/V* = target_ratio and H* + V* = total,
\* before they are clipped
SolveTarget(H0, V0, target_ratio) ==
    LET total == H0 + V0
        V_eq == FDiv(total * Q, target_ratio + Q)
        H_eq == FMul(target_ratio, V_eq)
    IN  [H_eq |-> H_eq, V_eq |-> V_eq]

\* (mutant) alpha0 + 0.15 with no cap
AlphaTargetUncapped(alpha0) == alpha0 + AlphaIncrement

\* alpha_eq before it is clipped
AlphaTarget(alpha0) == Min(AlphaCap, alpha0 + AlphaIncrement)

\* calculate_equilibrium(H0, V0, alpha0, target_ratio)
calculate_equilibrium_for(H0, V0, alpha0, target_ratio) ==
    LET solved == SolveTarget(H0, V0, target_ratio)
    IN  [H_eq |-> clip(solved.H_eq, 0, Q),
         V_eq |-> clip(solved.V_eq, 0, Q),
         alpha_eq |-> clip(AlphaTarget(alpha0), 0, Q)]

\* calculate_equilibrium(H0, V0, alpha0), target_ratio defaulting to PHI
calculate_equilibrium(H0, V0, alpha0) ==
    calculate_equilibrium_for(H0, V0, alpha0, PHI)

\* ------------------------------------------------------------------ metrics
\* the first of H, V, alpha outside [0, 1], as <<name, value>>, or <<>>
LEIInvalid(H, V, alpha) ==
    IF ~(0 <= H /\ H <= Q) THEN <<"H", H>>
    ELSE IF ~(0 <= V /\ V <= Q) THEN <<"V", V>>
    ELSE IF ~(0 <= alpha /\ alpha <= Q) THEN <<"alpha", alpha>>
    ELSE <<>>

\* calculate_LEI past its validation
LEIValue(H, V, alpha) ==
    IF V = 0 THEN 0
    ELSE LET HV_ratio == FDiv(H * Q, V)
             distance_phi == Abs(HV_ratio - PHI)
         IN  FDiv(V * alpha, distance_phi + 100)

\* (mutant) H/V - phi with no abs
calculate_d_phiSigned(H, V) ==
    IF V = 0 THEN 10 * Q
    ELSE FDiv(H * Q, V) - PHI

\* (mutant) V = 0 not singled out, the ratio taken as 0
calculate_d_phiNoSentinel(H, V) ==
    IF V = 0 THEN Abs(0 - PHI)
    ELSE Abs(FDiv(H * Q, V) - PHI)

calculate_d_phi(H, V) ==
    IF V = 0 THEN 10 * Q
    ELSE Abs(FDiv(H * Q, V) - PHI)

\* ------------------------------------------------------------ configuration
\* the keyword options of simulate_evolution, with their defaults
DefaultConfig ==
    [gamma_H |-> 50, gamma_V |-> 80, beta |-> 15,
     sigma_H |-> 10, sigma_V |-> 10, sigma_alpha |-> 5,
     noise_seed |-> DefaultSeed]

\* the calls made: the defaults, another seed, the 'crisis' noise, no noise,
\* no noise with the rates gamma_H = gamma_V = 1
Configs ==
    {DefaultConfig,
     [DefaultConfig EXCEPT !.noise_seed = 3],
     [DefaultConfig EXCEPT !.sigma_H = 30, !.sigma_V = 30, !.sigma_alpha = 15],
     [DefaultConfig EXCEPT !.sigma_H = 0, !.sigma_V = 0, !.sigma_alpha = 0],
     [DefaultConfig EXCEPT !.sigma_H = 0, !.sigma_V = 0, !.sigma_alpha = 0,
                           !.gamma_H = Q, !.gamma_V = Q]}

\* ---------------------------------------------------------------- the drift
\* int(t * 1000) at the solver's k-th evaluation time t = k / SubSteps
IntTime(k) == (k * TimeScale) \div SubSteps

\* (mutant) the noise is drawn from the generator as it stands, unseeded
NoiseRngUnseeded(r, noise_seed, k) == r

\* noise_seed + int(t * 1000), int_time being int(t * 1000)
CompositeSeed(noise_seed, int_time) == noise_seed + int_time

\* np.random.seed(noise_seed + int(t * 1000)): the generator after the call
NoiseRng(r, noise_seed, k) == seed(CompositeSeed(noise_seed, IntTime(k)))

\* (mutant) if V != 0
selection_pressureNonzero(H, V) ==
    IF V # 0 THEN ExpNeg(Abs(FDiv(H * Q, V) - PHI)) ELSE 0

selection_pressure(H, V) ==
    IF V > 0 THEN ExpNeg(Abs(FDiv(H * Q, V) - PHI)) ELSE 0

\* (mutant) the fields pushed away from the target: gamma * (x - x_eq)
DriftRepelling(state, params, noise) ==
    LET H == state[1]
        V == state[2]
        alpha == state[3]
        sp == selection_pressure(H, V)
        dH_dt == FMul(params.gamma_H, H - params.H_eq) + params.sigma_H * noise[1]
        dV_dt == FMul(params.gamma_V, V - params.V_eq) + params.sigma_V * noise[2]
        da_dt == FMul(FMul(params.beta, params.alpha_eq - alpha), sp)
                     + params.sigma_alpha * noise[3]
    IN  <<dH_dt, dV_dt, da_dt>>

\* the three equations of ode_system, given the three noise values drawn
Drift(state, params, noise) ==
    LET H == state[1]
        V == state[2]
        alpha == state[3]
        sp == selection_pressure(H, V)
        dH_dt == FMul(params.gamma_H, params.H_eq - H) + params.sigma_H * noise[1]
        dV_dt == FMul(params.gamma_V, params.V_eq - V) + params.sigma_V * noise[2]
        da_dt == FMul(FMul(params.beta, params.alpha_eq - alpha), sp)
                     + params.sigma_alpha * noise[3]
    IN  <<dH_dt, dV_dt, da_dt>>

\* (mutant) each field's noise is the first draw of a stream of its own,
\* seeded with the composite seed plus the field's index
ode_systemPerField(state, k, params, r) ==
    LET c == params.noise_seed + IntTime(k)
        noise_H == normal(seed(c))
        noise_V == normal(seed(c + 1))
        noise_alpha == normal(seed(c + 2))
    IN  [d |-> Drift(state, params, <<noise_H, noise_V, noise_alpha>>),
         rng |-> Advance(seed(c + 2))]

\* ode_system(state, t, params) at t = k / SubSteps with the generator in
\* state r: the derivative d and the generator it leaves behind
ode_system(state, k, params, r) ==
    LET r0 == NoiseRng(r, params.noise_seed, k)
        r1 == Advance(r0)
        r2 == Advance(r1)
        noise_H == normal(r0)
        noise_V == normal(r1)
        noise_alpha == normal(r2)
    IN  [d |-> Drift(state, params, <<noise_H, noise_V, noise_alpha>>),
         rng |-> Advance(r2)]

\* odeint(ode_system, state0, t, args=(params,)) for t = 0, 1, ..., years:
\* the solver advances in SubSteps internal steps per unit of time, calling
\* ode_system once per step, and reports the state at the integer times.
\* sol is the rows reported so far, calls the number of ode_system calls.
\* (mutant) every internal step of the solver is reported as a sample
OdeStepRecordsAll(acc, k, params) ==
    Bind(ode_system(acc.state, k, params, acc.rng),
         LAMBDA f :
            Bind([j \in 1..3 |-> acc.state[j] + FDiv(f.d[j], SubSteps)],
                 LAMBDA nxt :
                    [state |-> nxt,
                     sol |-> Append(acc.sol, nxt),
                     rng |-> f.rng,
                     calls |-> acc.calls + 1]))

\* one internal step of the solver from acc = [state, sol, rng, calls]
OdeStep(acc, k, params) ==
    Bind(ode_system(acc.state, k, params, acc.rng),
         LAMBDA f :
            Bind([j \in 1..3 |-> acc.state[j] + FDiv(f.d[j], SubSteps)],
                 LAMBDA nxt :
                    [state |-> nxt,
                     sol |-> IF (k + 1) % SubSteps = 0
                             THEN Append(acc.sol, nxt) ELSE acc.sol,
                     rng |-> f.rng,
                     calls |-> acc.calls + 1]))

RECURSIVE OdeLoop(_, _, _, _)
OdeLoop(k, last, acc, params) ==
    IF k >= last THEN acc
    ELSE Bind(OdeStep(acc, k, params),
              LAMBDA nxt : OdeLoop(k + 1, last, nxt, params))

odeint(state0, years, params, r) ==
    OdeLoop(0, years * SubSteps,
            [state |-> state0, sol |-> <<state0>>, rng |-> r, calls |-> 0],
            params)

\* ------------------------------------------------------- simulate_evolution
\* (mutant) the validation loop run over alpha0, V0, H0
InputInvalidReversed(H0, V0, alpha0) ==
    IF ~(0 <= alpha0 /\ alpha0 <= Q) THEN <<"alpha0", alpha0>>
    ELSE IF ~(0 <= V0 /\ V0 <= Q) THEN <<"V0", V0>>
    ELSE IF ~(0 <= H0 /\ H0 <= Q) THEN <<"H0", H0>>
    ELSE <<>>

\* the input validation: the first of H0, V0, alpha0 outside [0, 1], as
\* <<name, value>> (the ValueError's text), or <<>>
InputInvalid(H0, V0, alpha0) ==
    IF ~(0 <= H0 /\ H0 <= Q) THEN <<"H0", H0>>
    ELSE IF ~(0 <= V0 /\ V0 <= Q) THEN <<"V0", V0>>
    ELSE IF ~(0 <= alpha0 /\ alpha0 <= Q) THEN <<"alpha0", alpha0>>
    ELSE <<>>

\* (mutant) np.linspace(0, years, years): one sample short
linspaceShort(years) == [j \in 1..years |-> j - 1]

\* np.linspace(0, years, years + 1)
linspace(years) == [j \in 1..(years + 1) |-> j - 1]

\* np.linspace raises ValueError("Number of samples, <num>, must be
\* non-negative.") for a negative number of samples, num being years + 1
linspaceRaises(years) == years + 1 < 0

\* the rows of a solution whose calculate_LEI call raises
LEIFailures(sol) ==
    {j \in 1..Len(sol) : LEIInvalid(sol[j][1], sol[j][2], sol[j][3]) # <<>>}

SetMin(S) == CHOOSE x \in S : \A y \in S : x <= y

\* simulate_evolution(H0, V0, alpha0, years, **cfg) called with the global
\* generator in state r.  ok: it returned (val) or raised (err); rng: the
\* generator it leaves; eqDone, calls: whether the equilibrium was computed
\* and how many times ode_system ran (and reseeded) before it ended.
\* the metrics computed from the solution and the dictionary returned, or
\* the ValueError of the first calculate_LEI call that raises
DerivedMetrics(solution, t, eq) ==
    LET sol == solution.sol
        n == Len(sol)
        failures == LEIFailures(sol)
    IN  IF failures # {}
        THEN LET j == SetMin(failures)
             IN  [ok |-> FALSE,
                  err |-> LEIInvalid(sol[j][1], sol[j][2], sol[j][3]),
                  val |-> <<>>, rng |-> solution.rng,
                  eqDone |-> TRUE, calls |-> solution.calls]
        ELSE [ok |-> TRUE, err |-> <<>>,
              val |-> [time |-> t,
                       H |-> [j \in 1..n |-> sol[j][1]],
                       V |-> [j \in 1..n |-> sol[j][2]],
                       alpha |-> [j \in 1..n |-> sol[j][3]],
                       LEI |-> [j \in 1..n |->
                                  LEIValue(sol[j][1], sol[j][2], sol[j][3])],
                       d_phi |-> [j \in 1..n |->
                                    calculate_d_phi(sol[j][1], sol[j][2])],
                       H_eq |-> eq.H_eq, V_eq |-> eq.V_eq,
                       alpha_eq |-> eq.alpha_eq],
              rng |-> solution.rng, eqDone |-> TRUE,
              calls |-> solution.calls]

\* the params dictionary handed to the solver
Params(eq, cfg) ==
    [H_eq |-> eq.H_eq, V_eq |-> eq.V_eq, alpha_eq |-> eq.alpha_eq,
     gamma_H |-> cfg.gamma_H, gamma_V |-> cfg.gamma_V, beta |-> cfg.beta,
     sigma_H |-> cfg.sigma_H, sigma_V |-> cfg.sigma_V,
     sigma_alpha |-> cfg.sigma_alpha, noise_seed |-> cfg.noise_seed]

simulate_evolution(H0, V0, alpha0, years, cfg, r) ==
    LET bad == InputInvalid(H0, V0, alpha0)
    IN  IF bad # <<>>
        THEN [ok |-> FALSE, err |-> bad, val |-> <<>>, rng |-> r,
              eqDone |-> FALSE, calls |-> 0]
        ELSE IF linspaceRaises(years)
        THEN [ok |-> FALSE, err |-> <<"num", years + 1>>, val |-> <<>>,
              rng |-> r, eqDone |-> TRUE, calls |-> 0]
        ELSE
        Bind(calculate_equilibrium(H0, V0, alpha0),
             LAMBDA eq :
                Bind(odeint(<<H0, V0, alpha0>>, years, Params(eq, cfg), r),
                     LAMBDA solution :
                        DerivedMetrics(solution, linspace(years), eq)))

\* ------------------------------------------- simulate_multiple_trajectories
\* (mutant) every run simulated with the base seed
TrajectorySeedShared(base_seed, i) == base_seed

\* kwargs.get('noise_seed', 42) + i: the seed run i is simulated with
TrajectorySeed(base_seed, i) == base_seed + i

\* (mutant) for i in range(n_simulations + 1)
LoopContinuesInclusive(i, n) == i <= n

\* for i in range(n_simulations): whether the loop body runs for index i
LoopContinues(i, n) == i < n

\* the three np.random.uniform draws of one run, from the generator in
\* state r: the initial state drawn and the generator afterwards
DrawInitial(r, ranges) ==
    LET r1 == Advance(r)
        r2 == Advance(r1)
    IN  [H0 |-> uniform(r, ranges.H[1], ranges.H[2]),
         V0 |-> uniform(r1, ranges.V[1], ranges.V[2]),
         alpha0 |-> uniform(r2, ranges.alpha[1], ranges.alpha[2]),
         rng |-> Advance(r2)]

\* the keys the loop adds to a run's result dictionary
Annotate(val, i, H0, V0, alpha0) ==
    val @@ [simulation_id |-> i, H0 |-> H0, V0 |-> V0, alpha0 |-> alpha0]

\* (mutant) the warning numbers the runs from 1
RunBodyMisnumbered(i, years, ranges, cfg, r) ==
    Bind(DrawInitial(r, ranges),
         LAMBDA draw :
            Bind(simulate_evolution(
                    draw.H0, draw.V0, draw.alpha0, years,
                    [cfg EXCEPT !.noise_seed = cfg.noise_seed + i],
                    draw.rng),
                 LAMBDA out :
                    [ok |-> out.ok,
                     result |-> IF out.ok
                                THEN out.val @@ [simulation_id |-> i,
                                                 H0 |-> draw.H0, V0 |-> draw.V0,
                                                 alpha0 |-> draw.alpha0]
                                ELSE <<>>,
                     warning |-> [i |-> i + 1, cause |-> out.err],
                     attempt |-> [i |-> i, H0 |-> draw.H0, V0 |-> draw.V0,
                                  alpha0 |-> draw.alpha0,
                                  noise_seed |-> cfg.noise_seed + i,
                                  ok |-> out.ok],
                     rng |-> out.rng]))

\* one pass of the loop body for run i, from the generator in state r:
\* the draw, the run's seed, the simulate_evolution call, and what the
\* try/except makes of it
RunBody(i, years, ranges, cfg, r) ==
    Bind(DrawInitial(r, ranges),
         LAMBDA draw :
            Bind(simulate_evolution(
                    draw.H0, draw.V0, draw.alpha0, years,
                    [cfg EXCEPT !.noise_seed = TrajectorySeed(cfg.noise_seed, i)],
                    draw.rng),
                 LAMBDA out :
                    [ok |-> out.ok,
                     result |-> IF out.ok
                                THEN Annotate(out.val, i, draw.H0, draw.V0,
                                              draw.alpha0)
                                ELSE <<>>,
                     warning |-> [i |-> i, cause |-> out.err],
                     attempt |-> [i |-> i, H0 |-> draw.H0, V0 |-> draw.V0,
                                  alpha0 |-> draw.alpha0,
                                  noise_seed |->
                                      TrajectorySeed(cfg.noise_seed, i),
                                  ok |-> out.ok],
                     rng |-> out.rng]))

\* ------------------------------------------------------ analyze_convergence
\* a statistic that may be np.nan is held as <<x>>, np.nan being <<>>
NaN == <<>>
Num(x) == <<x>>
\* the floor on the final V below which no H/V ratio is taken
RatioFloor == 100
\* the default threshold_dphi
DefaultThreshold == 500

RECURSIVE SeqSum(_)
SeqSum(s) == IF s = <<>> THEN 0 ELSE Head(s) + SeqSum(Tail(s))

\* the integer square root of n >= 0, by bisection on lo <= r < hi
RECURSIVE SqrtBetween(_, _, _)
SqrtBetween(n, lo, hi) ==
    IF hi - lo <= 1 THEN lo
    ELSE Bind((lo + hi) \div 2,
              LAMBDA mid : IF mid * mid <= n THEN SqrtBetween(n, mid, hi)
                           ELSE SqrtBetween(n, lo, mid))
sqrt(n) == SqrtBetween(n, 0, 46341)

\* np.mean of a non-empty list of fixed-point numbers
np_mean(s) == FDiv(SeqSum(s), Len(s))

\* np.std of a non-empty list: the root of the mean squared deviation from
\* the mean (deviations beyond 20 are squared to one decimal, as a float
\* keeps relative and not absolute precision)
np_std(s) ==
    Bind(np_mean(s),
         LAMBDA m :
            LET dev == [j \in 1..Len(s) |-> Abs(s[j] - m)]
                unit == IF \E j \in 1..Len(s) : dev[j] > 20 * Q THEN 100 ELSE 1
                sq == [j \in 1..Len(s) |-> (dev[j] \div unit) * (dev[j] \div unit)]
            IN  unit * sqrt(SeqSum(sq) \div Len(s)))

\* (mutant) final_dphi <= threshold_dphi
IsConvergedInclusive(final_dphi, threshold_dphi) == final_dphi <= threshold_dphi

\* if final_dphi < threshold_dphi
IsConverged(final_dphi, threshold_dphi) == final_dphi < threshold_dphi

\* (mutant) the last index below the threshold
CrossingIndexLast(d_phi_traj, threshold_dphi) ==
    LET conv_idx == {j \in 1..Len(d_phi_traj) : d_phi_traj[j] < threshold_dphi}
    IN  IF conv_idx = {} THEN 0
        ELSE CHOOSE x \in conv_idx : \A y \in conv_idx : x >= y

\* np.where(d_phi_traj < threshold_dphi)[0][0]: the first index (from 1)
\* below the threshold, 0 when there is none
CrossingIndex(d_phi_traj, threshold_dphi) ==
    LET conv_idx == {j \in 1..Len(d_phi_traj) : d_phi_traj[j] < threshold_dphi}
    IN  IF conv_idx = {} THEN 0 ELSE SetMin(conv_idx)

\* (mutant) the ratio taken of the converged trajectories only
HasRatioConverged(traj, threshold_dphi) ==
    /\ traj.V[Len(traj.V)] > RatioFloor
    /\ traj.d_phi[Len(traj.d_phi)] < threshold_dphi

\* if traj['V'][-1] > 0.1
HasRatio(traj, threshold_dphi) == traj.V[Len(traj.V)] > RatioFloor

\* the body of the loop over the trajectories, acc being the four lists
AnalyzeBody(acc, traj, threshold_dphi) ==
    LET d_phi_traj == traj.d_phi
        final_dphi == d_phi_traj[Len(d_phi_traj)]
        isConv == IsConverged(final_dphi, threshold_dphi)
        conv_idx == CrossingIndex(d_phi_traj, threshold_dphi)
    IN  [converged |->
            IF isConv THEN Append(acc.converged, traj) ELSE acc.converged,
         convergence_times |->
            IF isConv /\ conv_idx > 0
            THEN Append(acc.convergence_times, traj.time[conv_idx] * Q)
            ELSE acc.convergence_times,
         final_dphis |-> Append(acc.final_dphis, final_dphi),
         final_ratios |->
            IF HasRatio(traj, threshold_dphi)
            THEN Append(acc.final_ratios,
                        FDiv(traj.H[Len(traj.H)] * Q, traj.V[Len(traj.V)]))
            ELSE acc.final_ratios]

RECURSIVE AnalyzeLoop(_, _, _, _)
AnalyzeLoop(trajectories, k, acc, threshold_dphi) ==
    IF k > Len(trajectories) THEN acc
    ELSE Bind(AnalyzeBody(acc, trajectories[k], threshold_dphi),
              LAMBDA nxt : AnalyzeLoop(trajectories, k + 1, nxt, threshold_dphi))

\* analyze_convergence(trajectories, threshold_dphi): the dictionary
\* returned (val) or the exception raised (err); the four lists are kept
\* beside it (lists)
analyze_convergence(trajectories, threshold_dphi) ==
    Bind(AnalyzeLoop(trajectories, 1,
                     [converged |-> <<>>, convergence_times |-> <<>>,
                      final_dphis |-> <<>>, final_ratios |-> <<>>],
                     threshold_dphi),
         LAMBDA l :
            LET n_total == Len(trajectories)
            IN  IF n_total = 0
                THEN [ok |-> FALSE, err |-> <<"ZeroDivisionError">>,
                      val |-> <<>>, lists |-> l]
                ELSE [ok |-> TRUE, err |-> <<>>, lists |-> l,
                      val |->
                        [n_total |-> n_total,
                         n_converged |-> Len(l.converged),
                         convergence_rate |-> FDiv(Len(l.converged) * Q, n_total),
                         mean_convergence_time |->
                            IF l.convergence_times # <<>>
                            THEN Num(np_mean(l.convergence_times)) ELSE NaN,
                         std_convergence_time |->
                            IF l.convergence_times # <<>>
                            THEN Num(np_std(l.convergence_times)) ELSE NaN,
                         final_mean_dphi |-> np_mean(l.final_dphis),
                         final_std_dphi |-> np_std(l.final_dphis),
                         final_mean_HV_ratio |->
                            IF l.final_ratios # <<>>
                            THEN Num(np_mean(l.final_ratios)) ELSE NaN,
                         final_std_HV_ratio |->
                            IF l.final_ratios # <<>>
                            THEN Num(np_std(l.final_ratios)) ELSE NaN,
                         distance_to_phi |->
                            IF l.final_ratios # <<>>
                            THEN Num(Abs(np_mean(l.final_ratios) - PHI)) ELSE NaN]])

\* ------------------------------------------------------------------- state
VARIABLES
    rng,    \* numpy's process-wide generator
    pc,     \* "idle", "loop" inside simulate_multiple_trajectories, or
            \* "done" while the caller holds the result of a call
    ret,    \* what the latest completed call returned or raised (rng0: the
            \* generator's state when the call was made)
    ens,    \* the locals of the running simulate_multiple_trajectories
    par,    \* the loop body run by concurrent workers (SpecPar only)
    sim     \* the locals of a simulate_evolution call followed step by
            \* step (SpecScenario only)

vars == <<rng, pc, ret, ens, par, sim>>

\* the arguments the calls are made with
InitialH == {-100, 0, 700, 1000}
InitialV == {0, 600, 1000, 1200}
InitialAlpha == {-50, 0, 500, 1000}
Years == 0..MaxYears
\* the horizons simulate_evolution is called with: those, and a negative
\* one (not -1: np.linspace(0, -1, 0) is the empty grid, and what becomes
\* of it is up to scipy's odeint)
Horizons == Years \cup {-2}
\* states the generator may be in when a call starts
RngStates == {seed(s) : s \in {0, DefaultSeed}} \cup {[seed |-> 5, pos |-> 2]}

\* the sampling ranges the ensemble calls are made with: the defaults, the
\* whole unit interval, and an H range reaching past 1
DefaultRanges == [H |-> <<300, 950>>, V |-> <<100, 850>>, alpha |-> <<100, 800>>]
Ranges ==
    {DefaultRanges,
     [H |-> <<0, 1000>>, V |-> <<0, 1000>>, alpha |-> <<0, 1000>>],
     [H |-> <<500, 1500>>, V |-> <<100, 850>>, alpha |-> <<100, 800>>]}
Runs == 0..MaxRuns

NoEns == [active |-> FALSE]
NoPar == [active |-> FALSE]
NoRet == [op |-> "none"]
NoSim == [active |-> FALSE]

Init ==
    /\ rng \in RngStates
    /\ pc = "idle"
    /\ ret = NoRet
    /\ ens = NoEns
    /\ par = NoPar
    /\ sim = NoSim

\* a call simulate_evolution(H0, V0, alpha0, years, **cfg)
Simulate(H0, V0, alpha0, years, cfg) ==
    /\ pc = "idle"
    /\ pc' = "done"
    /\ \E out \in {simulate_evolution(H0, V0, alpha0, years, cfg, rng)} :
           /\ ret' = [op |-> "simulate",
                      args |-> [H0 |-> H0, V0 |-> V0, alpha0 |-> alpha0,
                                years |-> years, cfg |-> cfg],
                      ok |-> out.ok, err |-> out.err, val |-> out.val,
                      eqDone |-> out.eqDone, calls |-> out.calls,
                      rng0 |-> rng]
           /\ rng' = out.rng
    /\ UNCHANGED <<ens, par, sim>>

\* the caller is done with the result; the generator stays as the call left it
Discard ==
    /\ pc = "done"
    /\ pc' = "idle"
    /\ ret' = NoRet
    /\ UNCHANGED <<rng, ens, par, sim>>

\* simulate_multiple_trajectories(n, years, ranges, **cfg) up to its loop
EnsembleBegin(n, years, ranges, cfg) ==
    /\ pc = "idle"
    /\ pc' = "loop"
    /\ rng' = seed(cfg.noise_seed)
    /\ ens' = [active |-> TRUE, n |-> n, years |-> years, ranges |-> ranges,
               cfg |-> cfg, i |-> 0, trajectories |-> <<>>, warns |-> <<>>,
               attempts |-> <<>>]
    /\ UNCHANGED <<ret, par, sim>>

\* one iteration of its loop
EnsembleRun ==
    /\ pc = "loop"
    /\ LoopContinues(ens.i, ens.n)
    /\ \E body \in {RunBody(ens.i, ens.years, ens.ranges, ens.cfg, rng)} :
           /\ rng' = body.rng
           /\ ens' = [ens EXCEPT
                        !.i = @ + 1,
                        !.trajectories =
                            IF body.ok THEN Append(@, body.result) ELSE @,
                        !.warns =
                            IF body.ok THEN @ ELSE Append(@, body.warning),
                        !.attempts = Append(@, body.attempt)]
    /\ UNCHANGED <<pc, ret, par, sim>>

\* the loop is over: return trajectories
EnsembleReturn ==
    /\ pc = "loop"
    /\ ~LoopContinues(ens.i, ens.n)
    /\ pc' = "done"
    /\ ret' = [op |-> "ensemble",
               args |-> [n |-> ens.n, years |-> ens.years,
                         ranges |-> ens.ranges, cfg |-> ens.cfg],
               trajectories |-> ens.trajectories, warns |-> ens.warns,
               attempts |-> ens.attempts]
    /\ ens' = NoEns
    /\ UNCHANGED <<rng, par, sim>>

\* the thresholds analyze_convergence is called with: the default, two
\* looser ones, and the distance reported for V = 0
Thresholds == {DefaultThreshold, 700, 2 * Q, 10 * Q}

\* analyze_convergence(trajectories, threshold) called by the holder of an
\* ensemble, or of a single trajectory put in a list
Analyze(threshold_dphi) ==
    /\ pc = "done"
    /\ \/ ret.op = "ensemble"
       \/ ret.op = "simulate" /\ ret.ok
    /\ LET trajectories == IF ret.op = "ensemble" THEN ret.trajectories
                           ELSE <<ret.val>>
       IN  \E out \in {analyze_convergence(trajectories, threshold_dphi)} :
               ret' = [op |-> "analyze",
                       args |-> [trajectories |-> trajectories,
                                 threshold_dphi |-> threshold_dphi],
                       ok |-> out.ok, err |-> out.err, val |-> out.val,
                       lists |-> out.lists]
    /\ UNCHANGED <<rng, pc, ens, par, sim>>

Next ==
    \/ Discard
    \/ EnsembleRun
    \/ EnsembleReturn
    \/ \E threshold_dphi \in Thresholds : Analyze(threshold_dphi)
    \/ \E n \in Runs, years \in Years, ranges \in Ranges, cfg \in Configs :
            EnsembleBegin(n, years, ranges, cfg)
    \/ \E H0 \in InitialH, V0 \in InitialV, alpha0 \in InitialAlpha,
          years \in Horizons, cfg \in Configs :
            Simulate(H0, V0, alpha0, years, cfg)

Spec == Init /\ [][Next]_vars

\* ------------------------------------------- the loop body run concurrently
\* simulate_multiple_trajectories as one function: the loop from run i on,
\* acc = [rng, trajectories, warns]
RECURSIVE SeqLoop(_, _, _, _, _, _)
SeqLoop(i, n, years, ranges, cfg, acc) ==
    IF ~LoopContinues(i, n) THEN acc
    ELSE Bind(RunBody(i, years, ranges, cfg, acc.rng),
              LAMBDA body :
                SeqLoop(i + 1, n, years, ranges, cfg,
                        [rng |-> body.rng,
                         trajectories |->
                            IF body.ok THEN Append(acc.trajectories, body.result)
                            ELSE acc.trajectories,
                         warns |->
                            IF body.ok THEN acc.warns
                            ELSE Append(acc.warns, body.warning)]))

simulate_multiple_trajectories(n, years, ranges, cfg) ==
    SeqLoop(0, n, years, ranges, cfg,
            [rng |-> seed(cfg.noise_seed), trajectories |-> <<>>,
             warns |-> <<>>])

\* The same loop with one worker per run index and nothing but numpy's
\* global generator shared; the workers' steps interleave freely.  A worker
\* is at "drawH", "drawV", "drawA" (the three uniform draws), then for each
\* ode_system call at "seed" (the reseeding) and "noise" (the three normal
\* draws, taken as one step: splitting them only adds interleavings), then
\* "done" with its outcome in out.
Workers == {0, 1}
ParYears == {0, 1}

NewWorker ==
    [at |-> "drawH", H0 |-> 0, V0 |-> 0, alpha0 |-> 0, k |-> 0,
     state |-> <<0, 0, 0>>, sol |-> <<>>, out |-> <<>>]

InitPar ==
    /\ pc = "par"
    /\ ret = NoRet
    /\ ens = NoEns
    /\ sim = NoSim
    /\ \E years \in ParYears, ranges \in Ranges, cfg \in Configs :
        /\ rng = seed(cfg.noise_seed)
        /\ par = [active |-> TRUE, years |-> years, ranges |-> ranges,
                  cfg |-> cfg, w |-> [i \in Workers |-> NewWorker]]

\* run i's keyword options and solver parameters
WorkerConfig(i) ==
    [par.cfg EXCEPT !.noise_seed = TrajectorySeed(par.cfg.noise_seed, i)]
WorkerParams(i) ==
    Params(calculate_equilibrium(par.w[i].H0, par.w[i].V0, par.w[i].alpha0),
           WorkerConfig(i))

\* what the loop body makes of a finished simulate_evolution call
WorkerOutcome(i, H0, V0, alpha0, out) ==
    [ok |-> out.ok,
     result |-> IF out.ok THEN Annotate(out.val, i, H0, V0, alpha0) ELSE <<>>,
     warning |-> [i |-> i, cause |-> out.err]]

\* the end of simulate_evolution once the solver has returned sol
WorkerFinish(i, H0, V0, alpha0, sol, calls) ==
    WorkerOutcome(i, H0, V0, alpha0,
        DerivedMetrics([sol |-> sol, rng |-> rng, calls |-> calls],
                       linspace(par.years),
                       calculate_equilibrium(H0, V0, alpha0)))

WDrawH(i) ==
    /\ par.active /\ par.w[i].at = "drawH"
    /\ par' = [par EXCEPT !.w[i].at = "drawV",
                          !.w[i].H0 = uniform(rng, par.ranges.H[1],
                                              par.ranges.H[2])]
    /\ rng' = Advance(rng)
    /\ UNCHANGED <<pc, ret, ens, sim>>

WDrawV(i) ==
    /\ par.active /\ par.w[i].at = "drawV"
    /\ par' = [par EXCEPT !.w[i].at = "drawA",
                          !.w[i].V0 = uniform(rng, par.ranges.V[1],
                                              par.ranges.V[2])]
    /\ rng' = Advance(rng)
    /\ UNCHANGED <<pc, ret, ens, sim>>

\* the third draw, then simulate_evolution up to its first ode_system call
WDrawAlpha(i) ==
    /\ par.active /\ par.w[i].at = "drawA"
    /\ LET H0 == par.w[i].H0
           V0 == par.w[i].V0
           alpha0 == uniform(rng, par.ranges.alpha[1], par.ranges.alpha[2])
           bad == InputInvalid(H0, V0, alpha0)
       IN  par' = [par EXCEPT
                    !.w[i].alpha0 = alpha0,
                    !.w[i].state = <<H0, V0, alpha0>>,
                    !.w[i].sol = <<<<H0, V0, alpha0>>>>,
                    !.w[i].at = IF bad # <<>> \/ par.years = 0
                                THEN "done" ELSE "seed",
                    !.w[i].out =
                        IF bad # <<>>
                        THEN WorkerOutcome(i, H0, V0, alpha0,
                                           [ok |-> FALSE, err |-> bad])
                        ELSE IF par.years = 0
                        THEN WorkerFinish(i, H0, V0, alpha0,
                                          <<<<H0, V0, alpha0>>>>, 0)
                        ELSE <<>>]
    /\ rng' = Advance(rng)
    /\ UNCHANGED <<pc, ret, ens, sim>>

\* np.random.seed(...) of the worker's next ode_system call
WSeed(i) ==
    /\ par.active /\ par.w[i].at = "seed"
    /\ rng' = NoiseRng(rng, WorkerConfig(i).noise_seed, par.w[i].k)
    /\ par' = [par EXCEPT !.w[i].at = "noise"]
    /\ UNCHANGED <<pc, ret, ens, sim>>

\* the three np.random.normal draws, the rest of ode_system and the
\* solver's step; after the last step, the rest of simulate_evolution
WStep(i) ==
    /\ par.active /\ par.w[i].at = "noise"
    /\ LET me == par.w[i]
           noise == <<normal(rng), normal(Advance(rng)),
                      normal(Advance(Advance(rng)))>>
           d == Drift(me.state, WorkerParams(i), noise)
           nxt == [j \in 1..3 |-> me.state[j] + FDiv(d[j], SubSteps)]
           sol == IF (me.k + 1) % SubSteps = 0 THEN Append(me.sol, nxt)
                  ELSE me.sol
           last == me.k + 1 >= par.years * SubSteps
       IN  par' = [par EXCEPT
                    !.w[i].state = nxt,
                    !.w[i].sol = sol,
                    !.w[i].k = me.k + 1,
                    !.w[i].at = IF last THEN "done" ELSE "seed",
                    !.w[i].out =
                        IF last
                        THEN WorkerFinish(i, me.H0, me.V0, me.alpha0, sol,
                                          me.k + 1)
                        ELSE <<>>]
    /\ rng' = Advance(Advance(Advance(rng)))
    /\ UNCHANGED <<pc, ret, ens, sim>>

NextPar ==
    \E i \in Workers :
        \/ WDrawH(i)
        \/ WDrawV(i)
        \/ WDrawAlpha(i)
        \/ WSeed(i)
        \/ WStep(i)

SpecPar == InitPar /\ [][NextPar]_vars

\* ------------------------------------------ calculate_equilibrium on its own
\* the valid initial values k / GridSize, k = 0 .. GridSize
GridSize == 20
Grid == {(Q * k) \div GridSize : k \in 0..GridSize}
GridAlpha == {0, 400, 550, 600, Q}
\* the target ratios asked for: phi, and one below, at and above 1
TargetRatios == {PHI, 500, Q, 3 * Q}

InitEq ==
    /\ pc = "eq"
    /\ ret = NoRet
    /\ rng = seed(DefaultSeed)
    /\ ens = NoEns
    /\ par = NoPar
    /\ sim = NoSim

\* a call calculate_equilibrium(H0, V0, alpha0, target_ratio); solved holds
\* the locals H_eq, V_eq as they are before the clipping
Equilibrium(H0, V0, alpha0, target_ratio) ==
    /\ pc = "eq"
    /\ pc' = "done"
    /\ ret' = [op |-> "equilibrium",
               args |-> [H0 |-> H0, V0 |-> V0, alpha0 |-> alpha0,
                         target_ratio |-> target_ratio],
               solved |-> SolveTarget(H0, V0, target_ratio),
               val |-> calculate_equilibrium_for(H0, V0, alpha0, target_ratio)]
    /\ UNCHANGED <<rng, ens, par, sim>>

NextEq ==
    \E H0 \in Grid, V0 \in Grid, alpha0 \in GridAlpha,
       target_ratio \in TargetRatios :
        Equilibrium(H0, V0, alpha0, target_ratio)

SpecEq == InitEq /\ [][NextEq]_vars

\* ------------------------- calculate_d_phi and the selection pressure alone
\* values of H and V, in and out of [0, 1]: the multiples of 0.1 from -0.2
\* to MetricSteps / 10 - 0.2, and 0.809 (0.809 / 0.5 is phi to 3 decimals)
MetricSteps == 14
MetricValues == {100 * k - 200 : k \in 0..MetricSteps} \cup {809}

InitMetric ==
    /\ pc = "metric"
    /\ ret = NoRet
    /\ rng = seed(DefaultSeed)
    /\ ens = NoEns
    /\ par = NoPar
    /\ sim = NoSim

\* a call calculate_d_phi(H, V): it raises nothing; warned: whether it
\* issued its warning
DPhi(H, V) ==
    /\ pc = "metric"
    /\ pc' = "done"
    /\ ret' = [op |-> "calculate_d_phi", args |-> [H |-> H, V |-> V],
               ok |-> TRUE, val |-> calculate_d_phi(H, V), warned |-> V = 0]
    /\ UNCHANGED <<rng, ens, par, sim>>

\* the selection pressure ode_system computes in the state (H, V, .)
SelectionPressure(H, V) ==
    /\ pc = "metric"
    /\ pc' = "done"
    /\ ret' = [op |-> "selection_pressure", args |-> [H |-> H, V |-> V],
               ok |-> TRUE, val |-> selection_pressure(H, V)]
    /\ UNCHANGED <<rng, ens, par, sim>>

NextMetric ==
    \/ \E H \in MetricValues, V \in MetricValues : DPhi(H, V)
    \/ \E H \in MetricValues, V \in MetricValues : SelectionPressure(H, V)

SpecMetric == InitMetric /\ [][NextMetric]_vars

\* ------------------------------------- one simulate_evolution call, stepwise
\* the locked-in start of test_argentina_remains_locked and its horizon
ScenarioH0 == 920
ScenarioV0 == 180
ScenarioAlpha0 == 90
ScenarioYears == 100
\* the bounds the test puts on the final H and V
LockedH == 700
LockedV == 400

InitScenario ==
    /\ pc = "idle"
    /\ rng \in RngStates
    /\ ret = NoRet
    /\ ens = NoEns
    /\ par = NoPar
    /\ sim = NoSim

\* simulate_evolution(0.92, 0.18, 0.09, 100, **cfg) up to the odeint call
\* (the initial state is valid: the validation passes)
ScenarioBegin(cfg) ==
    /\ pc = "idle"
    /\ InputInvalid(ScenarioH0, ScenarioV0, ScenarioAlpha0) = <<>>
    /\ pc' = "odeint"
    /\ LET eq == calculate_equilibrium(ScenarioH0, ScenarioV0, ScenarioAlpha0)
           state0 == <<ScenarioH0, ScenarioV0, ScenarioAlpha0>>
       IN  sim' = [active |-> TRUE, cfg |-> cfg, eq |-> eq,
                   params |-> Params(eq, cfg), k |-> 0,
                   rng0 |-> rng,
                   acc |-> [state |-> state0, sol |-> <<state0>>,
                            rng |-> rng, calls |-> 0]]
    /\ UNCHANGED <<rng, ret, ens, par>>

\* one internal step of odeint: an ode_system call and the state advanced
ScenarioStep ==
    /\ pc = "odeint"
    /\ sim.k < ScenarioYears * SubSteps
    /\ \E nxt \in {OdeStep(sim.acc, sim.k, sim.params)} :
           /\ sim' = [sim EXCEPT !.k = @ + 1, !.acc = nxt]
           /\ rng' = nxt.rng
    /\ UNCHANGED <<pc, ret, ens, par>>

\* odeint has returned: the metrics, and the return (or the ValueError)
ScenarioReturn ==
    /\ pc = "odeint"
    /\ sim.k >= ScenarioYears * SubSteps
    /\ pc' = "done"
    /\ \E out \in {DerivedMetrics(sim.acc, linspace(ScenarioYears), sim.eq)} :
           ret' = [op |-> "simulate",
                   args |-> [H0 |-> ScenarioH0, V0 |-> ScenarioV0,
                             alpha0 |-> ScenarioAlpha0,
                             years |-> ScenarioYears, cfg |-> sim.cfg],
                   ok |-> out.ok, err |-> out.err, val |-> out.val,
                   eqDone |-> out.eqDone, calls |-> out.calls,
                   rng0 |-> sim.rng0]
    /\ sim' = NoSim
    /\ UNCHANGED <<rng, ens, par>>

NextScenario ==
    \/ ScenarioStep
    \/ ScenarioReturn
    \/ \E cfg \in Configs : ScenarioBegin(cfg)

SpecScenario == InitScenario /\ [][NextScenario]_vars

\* ------------------------------------------------- predict_future_trajectory
\* (mutant) kwargs[key] = value
setdefaultOverwrites(kwargs, key, value) ==
    [k \in DOMAIN kwargs \cup {key} |-> IF k = key THEN value ELSE kwargs[k]]

\* kwargs.setdefault(key, value): kwargs afterwards
setdefault(kwargs, key, value) ==
    [k \in DOMAIN kwargs \cup {key} |->
        IF k \in DOMAIN kwargs THEN kwargs[k] ELSE value]

\* the scenario branches: kwargs after the setdefault calls of the branch
ScenarioKwargs(scenario, kwargs) ==
    IF scenario = "reform"
    THEN setdefault(setdefault(kwargs, "gamma_V", 120), "gamma_H", 40)
    ELSE IF scenario = "lock-in"
    THEN setdefault(setdefault(setdefault(kwargs, "gamma_V", 40),
                               "gamma_H", 70), "sigma_V", 5)
    ELSE IF scenario = "crisis"
    THEN setdefault(setdefault(setdefault(kwargs, "sigma_H", 30),
                               "sigma_V", 30), "sigma_alpha", 15)
    ELSE kwargs

\* (mutant) a scenario with no branch is run as the baseline
ScenarioUnknownIgnored(scenario) == FALSE

\* the last branch: elif scenario != 'baseline': raise ValueError
ScenarioUnknown(scenario) ==
    scenario \notin {"reform", "lock-in", "crisis", "baseline"}

\* **kwargs bound to the keyword options of simulate_evolution
BindOptions(kwargs) ==
    [k \in DOMAIN DefaultConfig |->
        IF k \in DOMAIN kwargs THEN kwargs[k] ELSE DefaultConfig[k]]

\* result['scenario'] = scenario
TagScenario(val, scenario) ==
    [k \in DOMAIN val \cup {"scenario"} |->
        IF k = "scenario" THEN scenario ELSE val[k]]

\* predict_future_trajectory(H_current, V_current, alpha_current,
\* years_ahead, scenario, **kwargs), H, V, alpha being the current values,
\* with the generator in state r; cfg: the options simulate_evolution was
\* called with
predict_future_trajectory(H, V, alpha, years_ahead, scenario, kwargs, r) ==
    IF ScenarioUnknown(scenario)
    THEN [ok |-> FALSE, err |-> <<"scenario", scenario>>, val |-> <<>>,
          rng |-> r, eqDone |-> FALSE, calls |-> 0, simulated |-> FALSE,
          cfg |-> <<>>]
    ELSE Bind(BindOptions(ScenarioKwargs(scenario, kwargs)),
              LAMBDA cfg :
                 Bind(simulate_evolution(H, V, alpha, years_ahead, cfg, r),
                      LAMBDA out :
                         [ok |-> out.ok, err |-> out.err,
                          val |-> IF out.ok THEN TagScenario(out.val, scenario)
                                  ELSE out.val,
                          rng |-> out.rng, eqDone |-> out.eqDone,
                          calls |-> out.calls, simulated |-> TRUE,
                          cfg |-> cfg]))

\* the scenarios asked for: the four of the function and two it does not know
Scenarios == {"baseline", "reform", "lock-in", "crisis", "boom", "Reform"}

\* the options the caller supplies: none, one a scenario sets, a whole
\* noise setting, one no scenario sets
NoKwargs == [k \in {} |-> 0]
CallerKwargs ==
    {NoKwargs,
     [gamma_V |-> 60],
     [sigma_H |-> 0, sigma_V |-> 0, sigma_alpha |-> 0],
     [gamma_H |-> 90, noise_seed |-> 3]}

\* the current states predicted from
CurrentStates ==
    {[H |-> ScenarioH0, V |-> ScenarioV0, alpha |-> ScenarioAlpha0],
     [H |-> 700, V |-> 600, alpha |-> 500],
     [H |-> 700, V |-> 1200, alpha |-> 500]}

InitPredict ==
    /\ pc = "idle"
    /\ rng \in RngStates
    /\ ret = NoRet
    /\ ens = NoEns
    /\ par = NoPar
    /\ sim = NoSim

\* a call predict_future_trajectory(H, V, alpha, years_ahead, scenario,
\* **kwargs)
Predict(cur, years_ahead, scenario, kwargs) ==
    /\ pc = "idle"
    /\ pc' = "done"
    /\ \E out \in {predict_future_trajectory(cur.H, cur.V, cur.alpha,
                                             years_ahead, scenario, kwargs,
                                             rng)} :
           /\ ret' = [op |-> "predict",
                      args |-> [H0 |-> cur.H, V0 |-> cur.V,
                                alpha0 |-> cur.alpha, years |-> years_ahead,
                                scenario |-> scenario, kwargs |-> kwargs],
                      ok |-> out.ok, err |-> out.err, val |-> out.val,
                      eqDone |-> out.eqDone, calls |-> out.calls,
                      simulated |-> out.simulated, cfg |-> out.cfg,
                      rng0 |-> rng]
           /\ rng' = out.rng
    /\ UNCHANGED <<ens, par, sim>>

NextPredict ==
    \/ \E cur \in CurrentStates, years_ahead \in Years,
          scenario \in Scenarios, kwargs \in CallerKwargs :
          Predict(cur, years_ahead, scenario, kwargs)
    \/ Discard

SpecPredict == InitPredict /\ [][NextPredict]_vars

\* ----------------------------------- the noise seeds of one ensemble's runs
\* the ode_system calls followed in one ensemble
MaxCalls == 2
\* the ensemble sizes: two runs, and one run more than int(1 * 1000)
EnsembleSizes == {2, TimeScale + 1}
\* the run indices followed: the first two and the last
RunIndices(n) == {0, 1, n - 1}
\* int(t * 1000) at the times t of the calls followed: 0, the solver's
\* internal time 0.001, and 1
CallTimes == {0, 1, TimeScale}

InitSeeds ==
    /\ pc = "idle"
    /\ rng = seed(DefaultSeed)
    /\ ret = NoRet
    /\ ens = NoEns
    /\ par = NoPar
    /\ sim = NoSim

\* simulate_multiple_trajectories(n, years, **kwargs) with noise_seed =
\* base_seed is called
SeedsBegin(n, base_seed) ==
    /\ pc = "idle"
    /\ pc' = "seeds"
    /\ rng' = seed(base_seed)
    /\ ret' = [op |-> "noise", n |-> n, base_seed |-> base_seed,
               calls |-> <<>>]
    /\ UNCHANGED <<ens, par, sim>>

\* the solver of run i calls ode_system at a time t with int(t * 1000) =
\* int_time: the generator is reseeded and three values are drawn
NoiseCall(i, int_time) ==
    /\ pc = "seeds"
    /\ Len(ret.calls) < MaxCalls
    /\ LoopContinues(i, ret.n)
    /\ LET c == CompositeSeed(TrajectorySeed(ret.base_seed, i), int_time)
           r0 == seed(c)
           r1 == Advance(r0)
           r2 == Advance(r1)
       IN  /\ rng' = Advance(r2)
           /\ ret' = [ret EXCEPT !.calls =
                         Append(@, [run |-> i, int_time |-> int_time,
                                    composite |-> c,
                                    noise |-> <<normal(r0), normal(r1),
                                                normal(r2)>>])]
    /\ UNCHANGED <<pc, ens, par, sim>>

\* the ensemble call is over
SeedsEnd ==
    /\ pc = "seeds"
    /\ pc' = "idle"
    /\ ret' = NoRet
    /\ UNCHANGED <<rng, ens, par, sim>>

NextSeeds ==
    \/ \E n \in EnsembleSizes, base_seed \in {0, DefaultSeed} :
          SeedsBegin(n, base_seed)
    \/ \E n \in EnsembleSizes :
          \E i \in RunIndices(n), int_time \in CallTimes :
             NoiseCall(i, int_time)
    \/ SeedsEnd

SpecSeeds == InitSeeds /\ [][NextSeeds]_vars

\* ================================================================== claims
InUnit(x) == 0 <= x /\ x <= Q
ValidInitial(a) == InUnit(a.H0) /\ InUnit(a.V0) /\ InUnit(a.alpha0)
SimulateReturned == ret.op = "simulate"

\* C1: for every initial state with the three fields in [0, 1] and every
\* horizon >= 0, simulate_evolution returns a trajectory and raises nothing,
\* also when a field leaves [0, 1] during the integration.
C1_ValidInputReturns ==
    (SimulateReturned /\ ValidInitial(ret.args) /\ ret.args.years >= 0) =>
        ret.ok

\* C2: a returned trajectory has horizon + 1 samples, its times are
\* 0, 1, ..., horizon, every per-field and derived array has that length,
\* and the first sample is the initial state.
C2_TrajectoryShape ==
    (SimulateReturned /\ ret.ok) =>
        LET v == ret.val
            n == ret.args.years + 1
        IN  /\ Len(v.time) = n
            /\ \A j \in 1..n : v.time[j] = j - 1
            /\ Len(v.H) = n /\ Len(v.V) = n /\ Len(v.alpha) = n
            /\ Len(v.LEI) = n /\ Len(v.d_phi) = n
            /\ v.H[1] = ret.args.H0
            /\ v.V[1] = ret.args.V0
            /\ v.alpha[1] = ret.args.alpha0

\* a returned trajectory over the longest horizon, with noise
C2_Witness ==
    /\ SimulateReturned /\ ret.ok
    /\ ret.args.years = MaxYears
    /\ ret.args.cfg.sigma_H > 0
    /\ ret.val.H[MaxYears + 1] # ret.args.H0

\* C3: with a0, b0 or c0 outside [0, 1] simulate_evolution raises a
\* ValueError naming the first offending field (in the order H0, V0,
\* alpha0) and its value, before the equilibrium is computed, before any
\* call of ode_system and before the generator is reseeded; nothing is
\* returned.
C3_InvalidInputRejected ==
    (SimulateReturned /\ ~ValidInitial(ret.args)) =>
        LET a == ret.args
        IN  /\ ~ret.ok
            /\ ret.val = <<>>
            /\ ret.err = (IF ~InUnit(a.H0) THEN <<"H0", a.H0>>
                          ELSE IF ~InUnit(a.V0) THEN <<"V0", a.V0>>
                          ELSE <<"alpha0", a.alpha0>>)
            /\ ~ret.eqDone
            /\ ret.calls = 0
            /\ rng = ret.rng0

\* V0 and alpha0 both invalid: the error names V0
C3_Witness ==
    /\ SimulateReturned
    /\ InUnit(ret.args.H0) /\ ~InUnit(ret.args.V0) /\ ~InUnit(ret.args.alpha0)
    /\ ret.err = <<"V0", ret.args.V0>>
    /\ ret.args.years > 0

\* C4: two calls with the same (H0, V0, alpha0, years, options, seed) give
\* the same outcome whatever state the process-wide generator is in when
\* each is made: the outcome of the call made equals that of the same
\* call started from any other generator state.
C4_Deterministic ==
    SimulateReturned =>
        \A r \in RngStates :
            LET a == ret.args
                other == simulate_evolution(a.H0, a.V0, a.alpha0, a.years,
                                            a.cfg, r)
            IN  /\ other.ok = ret.ok
                /\ other.err = ret.err
                /\ other.val = ret.val

\* a noisy trajectory returned by a call that found the generator where an
\* earlier ensemble call had left it
C4_Witness ==
    /\ SimulateReturned /\ ret.ok
    /\ ret.args.years > 0
    /\ ret.args.cfg.sigma_H > 0
    /\ ret.rng0 \notin RngStates
    /\ ret.val.H[2] # ret.val.H[1]

\* the ensemble call in progress or just returned, as one record
EnsembleSeen == pc = "loop" \/ ret.op = "ensemble"
Ensemble ==
    IF pc = "loop"
    THEN [n |-> ens.n, years |-> ens.years, ranges |-> ens.ranges,
          cfg |-> ens.cfg, done |-> ens.i, returned |-> FALSE,
          trajectories |-> ens.trajectories, warns |-> ens.warns,
          attempts |-> ens.attempts]
    ELSE [n |-> ret.args.n, years |-> ret.args.years,
          ranges |-> ret.args.ranges, cfg |-> ret.args.cfg,
          done |-> Len(ret.attempts), returned |-> TRUE,
          trajectories |-> ret.trajectories, warns |-> ret.warns,
          attempts |-> ret.attempts]

\* C5: when run i fails, a warning naming i and the cause is recorded, run i
\* is not in the ensemble, the runs after i are still attempted, and the
\* call returns: the runs attempted are 0, 1, ... in order, all n of them
\* once the call has returned.
C5_FailureIsolated ==
    EnsembleSeen =>
        LET e == Ensemble
        IN  /\ Len(e.attempts) = e.done
            /\ e.returned => e.done = e.n
            /\ \A k \in 1..Len(e.attempts) :
                 LET a == e.attempts[k]
                 IN  /\ a.i = k - 1
                     /\ ~a.ok =>
                         /\ \E w \in 1..Len(e.warns) :
                              /\ e.warns[w].i = a.i
                              /\ Len(e.warns[w].cause) = 2
                              /\ ~InUnit(e.warns[w].cause[2])
                              /\ ~InUnit(a.H0) =>
                                     e.warns[w].cause = <<"H0", a.H0>>
                         /\ \A t \in 1..Len(e.trajectories) :
                              e.trajectories[t].simulation_id # a.i

\* run 0 failed, run 1 was still simulated, and the call returned
C5_Witness ==
    /\ ret.op = "ensemble"
    /\ ret.args.n = 2
    /\ ~ret.attempts[1].ok
    /\ ret.attempts[2].ok
    /\ Len(ret.warns) = 1
    /\ Len(ret.trajectories) = 1

\* C6: simulate_multiple_trajectories(n, ...) never returns more than n
\* trajectories, and for n = 0 it returns the empty list.
C6_AtMostN ==
    EnsembleSeen =>
        LET e == Ensemble
        IN  /\ Len(e.trajectories) <= e.n
            /\ e.n = 0 => e.trajectories = <<>>

\* the call with n = 0 returned the empty list
C6_Witness ==
    /\ ret.op = "ensemble"
    /\ ret.args.n = 0
    /\ ret.trajectories = <<>>
    /\ ret.warns = <<>>

\* C7: when every initial state drawn is valid, the ensemble returned holds
\* exactly n trajectories, one per run index 0 .. n-1.
C7_AllValidGivesN ==
    (ret.op = "ensemble"
        /\ \A k \in 1..Len(ret.attempts) : ValidInitial(ret.attempts[k])) =>
        /\ Len(ret.trajectories) = ret.args.n
        /\ \A i \in 0..(ret.args.n - 1) :
             \E t \in 1..Len(ret.trajectories) :
                ret.trajectories[t].simulation_id = i

\* C8: the initial state drawn for run i depends on base_seed, the ranges
\* and i alone: it is the i-th triple of the stream seeded once with
\* base_seed, whatever the horizon, the options and the fate of earlier runs.
C8_DrawsFromBaseStream ==
    EnsembleSeen =>
        LET e == Ensemble
        IN  \A k \in 1..Len(e.attempts) :
                LET a == e.attempts[k]
                    d == DrawInitial([seed |-> e.cfg.noise_seed,
                                      pos |-> 3 * (k - 1)], e.ranges)
                IN  a.H0 = d.H0 /\ a.V0 = d.V0 /\ a.alpha0 = d.alpha0

\* every worker has finished its run
AllDone == par.active /\ \A i \in Workers : par.w[i].at = "done"
\* the outcomes of the workers, gathered in the order of the run index
RECURSIVE Gather(_, _)
Gather(i, acc) ==
    IF i \notin Workers THEN acc
    ELSE Gather(i + 1,
                [trajectories |->
                    IF par.w[i].out.ok
                    THEN Append(acc.trajectories, par.w[i].out.result)
                    ELSE acc.trajectories,
                 warns |->
                    IF par.w[i].out.ok THEN acc.warns
                    ELSE Append(acc.warns, par.w[i].out.warning)])

\* C9: the loop body run by concurrent workers, in any order and
\* interleaving and with no lock, yields the ensemble (and the warnings)
\* the sequential loop yields.
C9_ParallelEqualsSequential ==
    AllDone =>
        LET seq == simulate_multiple_trajectories(
                        Cardinality(Workers), par.years, par.ranges, par.cfg)
            got == Gather(0, [trajectories |-> <<>>, warns |-> <<>>])
        IN  /\ got.trajectories = seq.trajectories
            /\ got.warns = seq.warns

\* the trajectory part of an ensemble entry
Trajectory(entry) ==
    [f \in {"time", "H", "V", "alpha", "LEI", "d_phi",
             "H_eq", "V_eq", "alpha_eq"} |-> entry[f]]

Analyzed == ret.op = "analyze"
Last(s) == s[Len(s)]
\* the trajectories of the analysed ensemble that ended below the threshold
ConvergedOf(trajectories, thr) ==
    SelectSeq(trajectories, LAMBDA traj : Last(traj.d_phi) < thr)
\* those whose final V exceeds the floor
AboveFloorOf(trajectories) ==
    SelectSeq(trajectories, LAMBDA traj : Last(traj.V) > RatioFloor)
\* m is the mean of the list s, to the nearest unit
IsMeanOf(m, s) == 2 * Abs(m * Len(s) - SeqSum(s)) <= Len(s)

\* C11: analyze_convergence of the empty list raises nothing and returns a
\* report whose convergence_rate and other aggregates are NaN.
C11_EmptyEnsembleReport ==
    (Analyzed /\ ret.args.trajectories = <<>>) =>
        /\ ret.ok
        /\ ret.val.convergence_rate = NaN
        /\ ret.val.mean_convergence_time = NaN
        /\ ret.val.final_mean_HV_ratio = NaN

\* C12: for a non-empty ensemble and any threshold the report has
\* n_total = the number of trajectories, n_converged = the number whose
\* final d_phi is strictly below the threshold, 0 <= n_converged <= n_total
\* and convergence_rate = n_converged / n_total, in [0, 1].
C12_CountsAndRate ==
    (Analyzed /\ ret.args.trajectories # <<>>) =>
        LET trajs == ret.args.trajectories
            thr == ret.args.threshold_dphi
            below == {k \in 1..Len(trajs) : Last(trajs[k].d_phi) < thr}
        IN  /\ ret.ok
            /\ ret.val.n_total = Len(trajs)
            /\ ret.val.n_converged = Cardinality(below)
            /\ 0 <= ret.val.n_converged
            /\ ret.val.n_converged <= ret.val.n_total
            /\ 2 * Abs(ret.val.convergence_rate * ret.val.n_total
                        - ret.val.n_converged * Q) <= ret.val.n_total
            /\ InUnit(ret.val.convergence_rate)

\* one of two trajectories converged, the other ended exactly at the
\* threshold
C12_Witness ==
    /\ Analyzed /\ ret.ok
    /\ ret.val.n_total = 2
    /\ ret.val.n_converged = 1
    /\ \E k \in 1..2 :
          Last(ret.args.trajectories[k].d_phi) = ret.args.threshold_dphi

\* C13: one crossing time per converged trajectory, the first time at which
\* its d_phi is below the threshold (between 0 and the horizon); none for a
\* trajectory that ends at or above the threshold, dip or no dip; mean and
\* standard deviation over these times, NaN when none converged.
C13_CrossingTimes ==
    (Analyzed /\ ret.ok) =>
        LET thr == ret.args.threshold_dphi
            conv == ConvergedOf(ret.args.trajectories, thr)
            times == ret.lists.convergence_times
        IN  /\ Len(times) = Len(conv)
            /\ \A k \in 1..Len(conv) :
                 LET d == conv[k].d_phi
                     t == times[k] \div Q
                 IN  /\ times[k] = t * Q
                     /\ 0 <= t /\ t <= Len(d) - 1
                     /\ d[t + 1] < thr
                     /\ \A j \in 1..t : d[j] >= thr
            /\ IF conv = <<>>
               THEN /\ ret.val.mean_convergence_time = NaN
                    /\ ret.val.std_convergence_time = NaN
               ELSE LET m == ret.val.mean_convergence_time[1]
                        sd == ret.val.std_convergence_time[1]
                        ssq == SeqSum([k \in 1..Len(times) |->
                                          (times[k] - m) * (times[k] - m)])
                    IN  /\ ret.val.mean_convergence_time # NaN
                        /\ ret.val.std_convergence_time # NaN
                        /\ IsMeanOf(m, times)
                        /\ sd >= 0
                        /\ sd * sd * Len(times) <= ssq
                        /\ ssq < (sd + 1) * (sd + 1) * Len(times)

\* two trajectories analysed: one dips below the threshold and ends at or
\* above it, the other converged and has one crossing time
C13_Witness ==
    /\ Analyzed /\ ret.ok
    /\ Len(ret.args.trajectories) = 2
    /\ Len(ret.lists.convergence_times) = 1
    /\ ret.val.mean_convergence_time # NaN
    /\ \E k \in 1..2 :
          LET d == ret.args.trajectories[k].d_phi
          IN  /\ Last(d) >= ret.args.threshold_dphi
              /\ \E j \in 1..Len(d) : d[j] < ret.args.threshold_dphi

\* C14: final_mean_dphi and final_std_dphi are over the final d_phi of all
\* trajectories; the H/V ratio's mean, standard deviation and distance to
\* phi are over the trajectories whose final V exceeds 0.1, converged or
\* not, and NaN when there is none.
C14_FinalStatistics ==
    (Analyzed /\ ret.ok) =>
        LET trajs == ret.args.trajectories
            finals == [k \in 1..Len(trajs) |-> Last(trajs[k].d_phi)]
            above == AboveFloorOf(trajs)
            ratios == [k \in 1..Len(above) |->
                          FDiv(Last(above[k].H) * Q, Last(above[k].V))]
        IN  /\ IsMeanOf(ret.val.final_mean_dphi, finals)
            /\ ret.val.final_std_dphi = np_std(finals)
            /\ IF above = <<>>
               THEN /\ ret.val.final_mean_HV_ratio = NaN
                    /\ ret.val.final_std_HV_ratio = NaN
                    /\ ret.val.distance_to_phi = NaN
               ELSE /\ ret.val.final_mean_HV_ratio # NaN
                    /\ IsMeanOf(ret.val.final_mean_HV_ratio[1], ratios)
                    /\ ret.val.final_std_HV_ratio = Num(np_std(ratios))
                    /\ ret.val.distance_to_phi
                           = Num(Abs(ret.val.final_mean_HV_ratio[1] - PHI))

\* two trajectories, both converged, of which one ends at or below the
\* floor: the ratio statistics are over one trajectory, the distance
\* statistics over both
C14_Witness ==
    /\ Analyzed /\ ret.ok
    /\ Len(ret.args.trajectories) = 2
    /\ ret.val.n_converged = 2
    /\ Len(ret.lists.final_ratios) = 1
    /\ ret.val.final_std_dphi > 0
    /\ ret.val.final_std_HV_ratio = Num(0)

\* a calculate_equilibrium call has returned
Solved == ret.op = "equilibrium"
\* H / V is ratio, H being ratio * V to the nearest unit
HasRatioOf(H, V, ratio) == 2 * Abs(H * Q - ratio * V) <= Q

C16_ReturnedRatio ==
    (Solved /\ 0 < ret.args.H0 /\ ret.args.H0 < Q
            /\ 0 < ret.args.V0 /\ ret.args.V0 < Q
            /\ ret.val.V_eq # 0) =>
        HasRatioOf(ret.val.H_eq, ret.val.V_eq, ret.args.target_ratio)

C19_ZeroVReturns ==
    (SimulateReturned /\ ValidInitial(ret.args) /\ ret.args.V0 = 0
        /\ ret.args.years >= 0) =>
        /\ ret.ok
        /\ Len(ret.val.H) = ret.args.years + 1
        /\ Len(ret.val.d_phi) = ret.args.years + 1
        /\ \A j \in 1..Len(ret.val.V) :
              ret.val.V[j] = 0 => ret.val.d_phi[j] = 10 * Q

\* C20: simulate_evolution(0.92, 0.18, 0.09, 100) with the default rates
\* and noise magnitudes returns a trajectory whose last H is still above
\* 0.7 and whose last V is still below 0.4.
C20_StaysLockedIn ==
    (SimulateReturned /\ ret.args.years = ScenarioYears
        /\ ret.args.cfg.gamma_H = DefaultConfig.gamma_H
        /\ ret.args.cfg.gamma_V = DefaultConfig.gamma_V
        /\ ret.args.cfg.sigma_H = DefaultConfig.sigma_H
        /\ ret.args.cfg.sigma_V = DefaultConfig.sigma_V
        /\ ret.args.cfg.sigma_alpha = DefaultConfig.sigma_alpha) =>
        /\ ret.ok
        /\ Last(ret.val.H) > LockedH
        /\ Last(ret.val.V) < LockedV

\* C21: in every trajectory simulate_evolution returns, every d_phi sample
\* and every LEI sample is >= 0.
C21_MetricsNonNegative ==
    (SimulateReturned /\ ret.ok) =>
        \A j \in 1..Len(ret.val.d_phi) :
            ret.val.d_phi[j] >= 0 /\ ret.val.LEI[j] >= 0

\* a returned trajectory with a later sample whose H/V is below phi and
\* whose LEI is positive
C21_Witness ==
    /\ SimulateReturned /\ ret.ok
    /\ ret.args.years > 0
    /\ \E j \in 2..Len(ret.val.V) :
          /\ ret.val.V[j] > 0
          /\ ret.val.H[j] * Q < PHI * ret.val.V[j]
          /\ ret.val.LEI[j] > 0

RatioDistance(H, V) == Abs(FDiv(H * Q, V) - PHI)

\* C24: in every state, V = 0 and V < 0 included, the selection pressure
\* is defined and in [0, 1]; it is 0 when V <= 0, 1 exactly when V > 0 and
\* H/V is phi, and no larger for a ratio farther from phi.
C24_SelectionPressure ==
    ret.op = "selection_pressure" =>
        LET H == ret.args.H
            V == ret.args.V
        IN  /\ ret.ok
            /\ InUnit(ret.val)
            /\ V <= 0 => ret.val = 0
            /\ ret.val = Q <=> (V > 0 /\ RatioDistance(H, V) = 0)
            /\ V > 0 =>
                 \A H2 \in MetricValues, V2 \in MetricValues :
                    (V2 > 0 /\ RatioDistance(H2, V2) > RatioDistance(H, V)) =>
                        selection_pressure(H2, V2) <= ret.val

\* the pressure in a state with V < 0 and H < 0
C24_Witness ==
    /\ ret.op = "selection_pressure"
    /\ ret.args.V < 0 /\ ret.args.H < 0
    /\ ret.val = 0

\* x + dx/dt, the drift evaluated at the integer time t in the state x
EulerUpdate(x, t, params, r) ==
    LET f == ode_system(x, t * SubSteps, params, r)
    IN  [j \in 1..3 |-> x[j] + f.d[j]]

StepWith(x, params, noise) ==
    LET d == Drift(x, params, noise)
    IN  [j \in 1..3 |-> x[j] + FDiv(d[j], SubSteps)]

\* an ode_system call of the integration in progress
OdeCall == pc = "odeint" /\ pc' = "odeint" /\ sim'.k = sim.k + 1

\* C25 (as amended): the three perturbations of one ode_system call are
\* the first three draws, for H, V and alpha in this order, of one stream:
\* the global generator reseeded with noise_seed + int(t * 1000); the call
\* leaves the generator three draws into that stream.
C25_OneStreamPerCall ==
    [][OdeCall =>
          LET r0 == seed(sim.params.noise_seed + IntTime(sim.k))
              r1 == Advance(r0)
              r2 == Advance(r1)
          IN  /\ sim'.acc.state =
                    StepWith(sim.acc.state, sim.params,
                             <<normal(r0), normal(r1), normal(r2)>>)
              /\ rng' = Advance(r2)]_vars

\* the offsets a field can have in the composite seed
FieldOffsets == 0..3

\* C25 (as claimed): each field's perturbation is the draw of a stream
\* seeded with the composite seed plus an offset of the field's own, the
\* three offsets different.
C25_PerFieldOffset ==
    [][OdeCall =>
          \E off \in [1..3 -> FieldOffsets] :
              /\ \A i, j \in 1..3 : i # j => off[i] # off[j]
              /\ LET c == sim.params.noise_seed + IntTime(sim.k)
                 IN  sim'.acc.state =
                        StepWith(sim.acc.state, sim.params,
                                 [j \in 1..3 |-> normal(seed(c + off[j]))])]_vars

\* after a call with noise whose second draw differs from the first draw of
\* the stream of the next seed
C25_Witness ==
    /\ pc = "odeint"
    /\ sim.k > 0
    /\ sim.cfg.sigma_V > 0
    /\ rng.pos = 3
    /\ rng.seed = sim.params.noise_seed + IntTime(sim.k - 1)
    /\ normal(Advance(seed(rng.seed))) # normal(seed(rng.seed + 1))

Predicted == ret.op = "predict"

\* the defaults of each scenario, as <<option, value>> pairs
ClaimedDefaults(scenario) ==
    IF scenario = "reform" THEN {<<"gamma_V", 120>>, <<"gamma_H", 40>>}
    ELSE IF scenario = "lock-in"
    THEN {<<"gamma_V", 40>>, <<"gamma_H", 70>>, <<"sigma_V", 5>>}
    ELSE IF scenario = "crisis"
    THEN {<<"sigma_H", 30>>, <<"sigma_V", 30>>, <<"sigma_alpha", 15>>}
    ELSE {}

KnownScenarios == {"baseline", "reform", "lock-in", "crisis"}

\* C26: predict_future_trajectory runs the simulation with the caller's
\* value for every option the caller supplied, with the scenario's default
\* for every other option the scenario sets, and with simulate_evolution's
\* default for the rest; a returned result carries the scenario name.
C26_ScenarioDefaults ==
    (Predicted /\ ret.args.scenario \in KnownScenarios) =>
        LET kwargs == ret.args.kwargs
            dflt == ClaimedDefaults(ret.args.scenario)
        IN  /\ ret.simulated
            /\ \A k \in DOMAIN DefaultConfig :
                  ret.cfg[k] =
                     IF k \in DOMAIN kwargs THEN kwargs[k]
                     ELSE IF \E d \in dflt : d[1] = k
                     THEN (CHOOSE d \in dflt : d[1] = k)[2]
                     ELSE DefaultConfig[k]
            /\ LET out == simulate_evolution(ret.args.H0, ret.args.V0,
                                             ret.args.alpha0, ret.args.years,
                                             ret.cfg, ret.rng0)
               IN  /\ ret.ok = out.ok
                   /\ rng = out.rng
                   /\ ret.ok =>
                        /\ ret.val.scenario = ret.args.scenario
                        /\ \A k \in DOMAIN out.val : ret.val[k] = out.val[k]

\* a 'lock-in' prediction whose caller supplied gamma_V, returned
C26_Witness ==
    /\ Predicted /\ ret.ok
    /\ ret.args.scenario = "lock-in"
    /\ ret.args.kwargs = [gamma_V |-> 60]
    /\ ret.cfg.gamma_V = 60 /\ ret.cfg.gamma_H = 70 /\ ret.cfg.sigma_V = 5
    /\ ret.args.years > 0

\* C27: predict_future_trajectory with a scenario other than 'baseline',
\* 'reform', 'lock-in', 'crisis' raises a ValueError naming the scenario;
\* no simulation runs, ode_system is never called and the generator is left
\* as it was.
C27_UnknownScenario ==
    (Predicted /\ ret.args.scenario \notin KnownScenarios) =>
        /\ ~ret.ok
        /\ ret.err = <<"scenario", ret.args.scenario>>
        /\ ~ret.simulated /\ ~ret.eqDone /\ ret.calls = 0
        /\ rng = ret.rng0

\* scenario 'Reform' (the names are case-sensitive), called with noise
\* options, a valid state and a positive horizon, from a generator that a
\* simulation would have reseeded
C27_Witness ==
    /\ Predicted /\ ~ret.ok
    /\ ret.args.scenario = "Reform"
    /\ ret.args.years > 0 /\ ret.args.H0 = 700 /\ ret.args.V0 = 600
    /\ ret.rng0 = [seed |-> 5, pos |-> 2]

\* C28: for every valid initial state the target alpha_eq of a trajectory
\* is not below alpha0, and without noise no sample of alpha is below
\* alpha0.
C28_TargetNotBelowInitial ==
    (SimulateReturned /\ ret.ok /\ ValidInitial(ret.args)) =>
        /\ ret.val.alpha_eq >= ret.args.alpha0
        /\ ret.args.cfg.sigma_alpha = 0 =>
              \A j \in 1..Len(ret.val.alpha) :
                  ret.val.alpha[j] >= ret.args.alpha0

\* C29: within one ensemble, two ode_system calls that differ in the run or
\* in the time are made with different composite noise seeds.
C29_CompositeSeedsDistinct ==
    pc = "seeds" =>
        \A a, b \in 1..Len(ret.calls) :
            (ret.calls[a].run # ret.calls[b].run
                \/ ret.calls[a].int_time # ret.calls[b].int_time) =>
                ret.calls[a].composite # ret.calls[b].composite

\* a call with the three noise magnitudes 0 and both rates in (0, 1]
Noiseless(cfg) ==
    /\ cfg.sigma_H = 0 /\ cfg.sigma_V = 0 /\ cfg.sigma_alpha = 0
    /\ 0 < cfg.gamma_H /\ cfg.gamma_H <= Q
    /\ 0 < cfg.gamma_V /\ cfg.gamma_V <= Q

\* x is between a and b, ends included
Between(x, a, b) == Min(a, b) <= x /\ x <= Max(a, b)

====
